---------------------------- MODULE Spec2Model ----------------------------
(***************************************************************************)
(* The task-graph engine of bokehjs/make/task.ts: the registry `tasks`,    *)
(* the resolver resolve_task, the executor exec_task and the runner        *)
(* run/_run, as a state machine.  Names are sequences of one-character     *)
(* strings so that split(":", 2) and endsWith are computed, not assumed.   *)
(***************************************************************************)
EXTENDS Naturals, Sequences, FiniteSets

VARIABLES
  tasks,     \* the registry Map<string, Task>, in insertion order
  phase,     \* "load" (registering), "run" (inside run(...)), "done"
  args,      \* the names run(...) was called with
  ni,        \* index into args of the next name the outer loop of run resolves
  tgen,      \* what the top-level generator resolve_task(name) still yields
  stack,     \* the chain of suspended _run(task) calls, innermost last
  call,      \* the task a _run call has just been made on (before line 132)
  ret,       \* what the last completed _run call handed to its caller
  finished,  \* the per-run memo Map<Task, Result>
  outcome,   \* how run(...) settled: returned a Result or rejected
  events,    \* the console log: start, finish and failure-detail events
  invoked,   \* history: how many times each task's fn was called in this run
  topLog,    \* history: the tasks run(...) itself called _run on, in order
  returns,   \* history: every _run call that returned: task, Result, cached
  entered,   \* history: how many activations of _run each task got in this run
  runs,      \* history: how many times run(...) was called
  regs       \* history: the task(...) calls made, where a behaviour records them

vars == <<tasks, phase, args, ni, tgen, stack, call, ret, finished, outcome,
          events, invoked, topLog, returns, entered, runs, regs>>

-----------------------------------------------------------------------------
(* Names *)

A  == <<"a">>
B  == <<"b", ":", "j">>
C  == <<"c", ":", "j">>
G  == <<"g">>
WJ == <<"*", ":", "j">>

\* names and patterns with more than one ':'
XAB == <<"x", ":", "a", ":", "b">>
YA  == <<"y", ":", "a">>
ZB  == <<"z", ":", "b">>
WAB == <<"*", ":", "a", ":", "b">>
WA  == <<"*", ":", "a">>
WB  == <<"*", ":", "b">>

\* the names the build scripts register; G is never registered
Pool == {A, B, C, XAB, YA, ZB}

Undefined == <<"u", "n", "d", "e", "f", "i", "n", "e", "d">>
NoName == <<>>

\* the engine's limit on nested _run activations: one more raises RangeError
MaxDepth == 4

-----------------------------------------------------------------------------
(* Result algebra *)

NoError == [kind |-> "none", component |-> NoName, text |-> "", name |-> NoName, ref |-> <<>>]

BuildError(component, text, name, ref) ==
  [kind |-> "BuildError", component |-> component, text |-> text, name |-> name, ref |-> ref]

\* an error object created by the action of task `name`
ActionError(name) ==
  [kind |-> "Error", component |-> NoName, text |-> "action error", name |-> name, ref |-> <<>>]

\* raised by the engine, not by an action
EngineError(kind, name) ==
  [kind |-> kind, component |-> NoName, text |-> "", name |-> name, ref |-> <<>>]

success(value) == [tag |-> "Success", value |-> value, error |-> NoError]

failure(error) == [tag |-> "Failure", value |-> <<>>, error |-> error]

is_Success(r) == r.tag = "Success"

is_Failure(r) == r.tag = "Failure"


NoResult == [tag |-> "none", value |-> <<>>, error |-> NoError]

\* what `await task.fn()` evaluates to when the action returns nothing
UndefinedValue == [tag |-> "undefined", value |-> <<>>, error |-> NoError]

-----------------------------------------------------------------------------
(* Task registry *)

\* fn: "none" is a task without action; the other kinds say what the action
\* does when awaited: resolve to nothing, resolve to a Success, resolve to a
\* Failure, or throw/reject
FnKinds == {"none", "void", "ok", "fail", "throw"}

Task(name, deps, fn) == [name |-> name, deps |-> deps, fn |-> fn]

\* task(name, deps, fn) and the overload task(name, fn)
TaskOfArgs(name, a2, a3) ==
  IF a2.isArray THEN Task(name, a2.deps, a3) ELSE Task(name, <<>>, a2.fn)

Deps(d) == [isArray |-> TRUE, deps |-> d, fn |-> "none"]

Fn(k) == [isArray |-> FALSE, deps |-> <<>>, fn |-> k]

has(reg, name) == \E i \in 1..Len(reg) : reg[i].name = name

get(reg, name) == reg[CHOOSE i \in 1..Len(reg) : reg[i].name = name]

\* mutant of set: a key that is set again moves to the end
setMovesLast(reg, name, t) ==
  LET other(x) == x.name # name
  IN Append(SelectSeq(reg, other), t)

\* Map.set: an existing key keeps its position, a new key goes last
set(reg, name, t) ==
  IF has(reg, name)
  THEN [i \in 1..Len(reg) |-> IF reg[i].name = name THEN t ELSE reg[i]]
  ELSE Append(reg, t)

task_names == [i \in 1..Len(tasks) |-> tasks[i].name]

-----------------------------------------------------------------------------
(* Name resolver *)

Min(a, b) == IF a <= b THEN a ELSE b

RECURSIVE Pieces(_)
\* String.prototype.split(":") without a limit
Pieces(s) ==
  IF \A i \in 1..Len(s) : s[i] # ":"
  THEN <<s>>
  ELSE LET i == CHOOSE k \in 1..Len(s) :
                  s[k] = ":" /\ \A m \in 1..(k - 1) : s[m] # ":"
       IN <<SubSeq(s, 1, i - 1)>> \o Pieces(SubSeq(s, i + 1, Len(s)))

\* name.split(":", limit): all the pieces, cut to the first `limit`
split(s, limit) == LET p == Pieces(s) IN SubSeq(p, 1, Min(limit, Len(p)))

endsWith(s, suf) ==
  Len(s) >= Len(suf) /\ SubSeq(s, Len(s) - Len(suf) + 1, Len(s)) = suf

\* `:${suffix}` with suffix the second piece, undefined when there is none
SuffixPattern(name) ==
  LET p == split(name, 2)
  IN <<":">> \o (IF Len(p) >= 2 THEN p[2] ELSE Undefined)

UnknownTask(name, parent) ==
  BuildError(<<"b", "u", "i", "l", "d">>, "unknown task", name,
             IF parent = NoName THEN <<>> ELSE <<parent>>)

Yield(ts) == [kind |-> "yield", tasks |-> ts, error |-> NoError]

Throw(e) == [kind |-> "throw", tasks |-> <<>>, error |-> e]

\* mutant of ResolveUnknown: an unknown name is taken for an empty match
ResolveUnknownAsEmpty(name, parent) == Yield(<<>>)

\* lines 98-103
ResolveUnknown(name, parent) == Throw(UnknownTask(name, parent))

\* mutant of Matches: the matching tasks come out last registered first
MatchesReversed(reg, pattern) ==
  LET hit(t) == endsWith(t.name, pattern)
      sel == SelectSeq(reg, hit)
  IN [i \in 1..Len(sel) |-> sel[Len(sel) + 1 - i].name]

\* lines 90-94: the registry is walked in insertion order
Matches(reg, pattern) ==
  LET hit(t) == endsWith(t.name, pattern)
      sel == SelectSeq(reg, hit)
  IN [i \in 1..Len(sel) |-> sel[i].name]

\* resolve_task(name, parent): the names of the tasks it yields, in order,
\* or the BuildError it throws; parent is NoName at the top level
resolve_task(reg, name, parent) ==
  IF split(name, 2)[1] = <<"*">>
  THEN Yield(Matches(reg, SuffixPattern(name)))
  ELSE IF has(reg, name)
       THEN Yield(<<name>>)
       ELSE ResolveUnknown(name, parent)

-----------------------------------------------------------------------------
(* Task executor *)

Returns(v) == [how |-> "return", value |-> v, error |-> NoError]

Throws(e) == [how |-> "throw", value |-> NoResult, error |-> e]

\* what awaiting the action of task t gives: Fn<T> = () => Promise<Result<T> | void>
ActionOutcome(t) ==
  CASE t.fn = "void"  -> Returns(UndefinedValue)
    [] t.fn = "ok"    -> Returns(success(<<t.name>>))
    [] t.fn = "fail"  -> Returns(failure(ActionError(t.name)))
    [] t.fn = "throw" -> Throws(ActionError(t.name))
    [] t.fn = "bare"  -> Returns([tag |-> "bare", value |-> <<t.name>>, error |-> NoError])

\* mutant of exec_result: the caught error is wrapped into a BuildError
exec_result_wrapping(out) ==
  IF out.how = "throw"
  THEN failure(BuildError(out.error.name, "action failed", out.error.name, <<>>))
  ELSE IF out.value = UndefinedValue THEN success(<<>>) ELSE out.value

\* the try/catch of exec_task: the value `result` is assigned
exec_result(out) ==
  IF out.how = "throw"
  THEN failure(out.error)
  ELSE IF out.value = UndefinedValue THEN success(<<>>) ELSE out.value

\* result.is_Success() of the finish log line is callable on a Result only
HasTag(r) == r.tag \in {"Success", "Failure"}

StartEvent(name) ==
  [type |-> "start", name |-> name, tag |-> "", timed |-> FALSE, error |-> NoError]

\* "Finished" or "Failed", with " after <duration>" when the action was timed
FinishEvent(name, r, timed) ==
  [type |-> "finish", name |-> name, tag |-> r.tag, timed |-> timed, error |-> NoError]

\* show_failure(failure), called by _run(name)
FailureEvent(name, r) ==
  [type |-> "failure", name |-> name, tag |-> "", timed |-> FALSE, error |-> r.error]

show_failure(log, name, r) ==
  IF is_Failure(r) THEN Append(log, FailureEvent(name, r)) ELSE log

-----------------------------------------------------------------------------
(* Graph runner: frames, registers *)

Frame(name) == [task |-> name, di |-> 1, gen |-> <<>>, failed |-> FALSE, pc |-> "deps"]

NoRet == [kind |-> "none", task |-> NoName, result |-> NoResult, error |-> NoError]

Returned(name, r) == [kind |-> "return", task |-> name, result |-> r, error |-> NoError]

Rejected(name, e) == [kind |-> "throw", task |-> name, result |-> NoResult, error |-> e]

ReturnOf(name, r, cached) == [task |-> name, result |-> r, cached |-> cached]

Top == stack[Len(stack)]

Pop == SubSeq(stack, 1, Len(stack) - 1)

SetTop(f) == [stack EXCEPT ![Len(stack)] = f]

\* mutant of Memoize: the Result is never stored
MemoizeNothing(memo, name, r) == memo

\* mutant of Memoize: only a Success is stored, a Failure is tried again
MemoizeSuccessOnly(memo, name, r) ==
  IF is_Success(r)
  THEN [n \in DOMAIN memo \cup {name} |-> IF n = name THEN r ELSE memo[n]]
  ELSE memo

\* finished.set(task, result)
Memoize(memo, name, r) == [n \in DOMAIN memo \cup {name} |-> IF n = name THEN r ELSE memo[n]]

\* mutant of DepAt: the dependency list is scanned from its end
DepAtReversed(t, i) == t.deps[Len(t.deps) + 1 - i]

\* the dependency name the scan of task t takes at position i
DepAt(t, i) == t.deps[i]

\* mutant of FailedAfter: `failed = result.is_Failure()`, the last one wins
FailedAfterLast(failed, r) == is_Failure(r)

\* lines 140-141: the flag after a dependency returned r
FailedAfter(failed, r) == failed \/ is_Failure(r)

\* mutant of RunStops: run goes on after a failed top-level task
RunNeverStops(r) == FALSE

\* lines 164-165: run returns at once on a failed top-level task
RunStops(r) == is_Failure(r)

\* line 149
DependencyFailed(name) == failure(BuildError(name, "task failed", name, <<>>))

Idle == call = NoName /\ ret = NoRet

InFrame == phase = "run" /\ stack # <<>> /\ Idle

\* mutant of ScanDone: the scan is over after the first dependency name
ScanDoneEarly(f) == f.gen = <<>> /\ (f.di > 1 \/ get(tasks, f.task).deps = <<>>)

\* lines 137-143: both loops are through
ScanDone(f) == f.gen = <<>> /\ f.di > Len(get(tasks, f.task).deps)

-----------------------------------------------------------------------------
(* Inputs: the registrations a build script makes and the names it runs *)

Call(name, a2, a3) == [name |-> name, a2 |-> a2, a3 |-> a3]

\* c:j: a leaf with every kind of action, an unknown dependency, a wildcard
\* dependency that matches c:j itself
CallsC ==
  {Call(C, Fn(k), "none") : k \in FnKinds \ {"none"}}
    \cup {Call(C, Deps(<<>>), "none"), Call(C, Deps(<<G>>), "void"),
          Call(C, Deps(<<WJ>>), "void")}

\* b:j: a leaf, a dependent of c:j, a dependent of a
CallsB ==
  {Call(B, Fn("void"), "none"), Call(B, Fn("throw"), "none"),
   Call(B, Deps(<<C>>), "ok"), Call(B, Deps(<<A>>), "void")}

\* a: a parent of b:j and c:j by exact names, repeated names and wildcards
CallsA ==
  {Call(A, Deps(d), "void") :
     d \in {<<B, C>>, <<C, B>>, <<B, B>>, <<WJ>>, <<C, WJ>>, <<G, C>>, <<A>>}}
    \cup {Call(A, Deps(<<B, C>>), "none"), Call(A, Fn("fail"), "none")}

TaskCalls == CallsA \cup CallsB \cup CallsC

\* the longest argument list of run(...)
MaxArgs == 2

TopNames == {A, B, WJ}

RunArgs == UNION {[1..k -> TopNames] : k \in 0..MaxArgs}

-----------------------------------------------------------------------------
(* Actions *)

Init ==
  /\ tasks = <<>>
  /\ phase = "load"
  /\ args = <<>>
  /\ ni = 1
  /\ tgen = <<>>
  /\ stack = <<>>
  /\ call = NoName
  /\ ret = NoRet
  /\ finished = <<>>
  /\ outcome = NoRet
  /\ events = <<>>
  /\ invoked = [n \in Pool |-> 0]
  /\ topLog = <<>>
  /\ returns = <<>>
  /\ entered = [n \in Pool |-> 0]
  /\ runs = 0
  /\ regs = <<>>

\* task(name, deps, fn), lines 73-81
task(name, a2, a3) ==
  /\ phase = "load"
  /\ tasks' = set(tasks, name, TaskOfArgs(name, a2, a3))
  /\ UNCHANGED <<phase, args, ni, tgen, stack, call, ret, finished, outcome,
                 events, invoked, topLog, returns, entered, runs>>

Register == \E c \in TaskCalls : task(c.name, c.a2, c.a3) /\ UNCHANGED regs

\* mutant of NewMemo: the memo of the run before is taken over
KeptMemo(memo) == memo

\* line 129: `const finished = new Map()`
NewMemo(memo) == <<>>

\* run(...names), lines 128-129: a fresh memo; the histories of the run
\* start anew, the console log goes on
run(names) ==
  /\ phase' = "run"
  /\ args' = names
  /\ ni' = 1
  /\ tgen' = <<>>
  /\ finished' = NewMemo(finished)
  /\ outcome' = NoRet
  /\ invoked' = [n \in Pool |-> 0]
  /\ entered' = [n \in Pool |-> 0]
  /\ topLog' = <<>>
  /\ returns' = <<>>
  /\ runs' = runs + 1
  /\ UNCHANGED <<tasks, stack, call, ret, events, regs>>

\* the build script calls run once its tasks are registered
RunStart == phase = "load" /\ \E names \in RunArgs : run(names)

AtTop == phase = "run" /\ stack = <<>> /\ call = NoName

\* lines 161-162: the outer loop takes the next name and resolves it
run_resolve ==
  /\ AtTop /\ ret = NoRet /\ tgen = <<>> /\ ni <= Len(args)
  /\ LET r == resolve_task(tasks, args[ni], NoName)
     IN /\ r.kind = "yield"
        /\ tgen' = r.tasks
        /\ ni' = ni + 1
  /\ UNCHANGED <<tasks, phase, args, stack, call, ret, finished, outcome,
                 events, invoked, topLog, returns,
                 entered, runs, regs>>

\* lines 162, 99-102: the top-level name is unknown, the BuildError leaves run
run_unknown ==
  /\ AtTop /\ ret = NoRet /\ tgen = <<>> /\ ni <= Len(args)
  /\ LET r == resolve_task(tasks, args[ni], NoName)
     IN /\ r.kind = "throw"
        /\ outcome' = Rejected(NoName, r.error)
        /\ phase' = "done"
  /\ UNCHANGED <<tasks, args, ni, tgen, stack, call, ret, finished,
                 events, invoked, topLog, returns,
                 entered, runs, regs>>

\* line 169
run_success ==
  /\ AtTop /\ ret = NoRet /\ tgen = <<>> /\ ni > Len(args)
  /\ outcome' = Returned(NoName, success(<<>>))
  /\ phase' = "done"
  /\ UNCHANGED <<tasks, args, ni, tgen, stack, call, ret, finished,
                 events, invoked, topLog, returns,
                 entered, runs, regs>>

\* line 163: _run(task) on the next task the top-level generator yields
run_call ==
  /\ AtTop /\ ret = NoRet /\ tgen # <<>>
  /\ call' = Head(tgen)
  /\ tgen' = Tail(tgen)
  /\ topLog' = Append(topLog, Head(tgen))
  /\ UNCHANGED <<tasks, phase, args, ni, stack, ret, finished, outcome,
                 events, invoked, returns,
                 entered, runs, regs>>

\* lines 164-165: the result of a top-level task
run_result ==
  /\ AtTop /\ ret.kind = "return"
  /\ ret' = NoRet
  /\ IF RunStops(ret.result)
     THEN outcome' = Returned(NoName, ret.result) /\ phase' = "done"
     ELSE UNCHANGED <<outcome, phase>>
  /\ UNCHANGED <<tasks, args, ni, tgen, stack, call, finished,
                 events, invoked, topLog, returns,
                 entered, runs, regs>>

\* an exception of _run leaves run: the promise of run rejects
run_reject ==
  /\ AtTop /\ ret.kind = "throw"
  /\ ret' = NoRet
  /\ outcome' = Rejected(NoName, ret.error)
  /\ phase' = "done"
  /\ UNCHANGED <<tasks, args, ni, tgen, stack, call, finished,
                 events, invoked, topLog, returns,
                 entered, runs, regs>>


\* mutant of run_cached: a memoized hit logs a start and a finish again
run_cached_logged ==
  /\ phase = "run" /\ call # NoName
  /\ call \in DOMAIN finished
  /\ ret' = Returned(call, finished[call])
  /\ returns' = Append(returns, ReturnOf(call, finished[call], TRUE))
  /\ call' = NoName
  /\ events' = events \o <<StartEvent(call), FinishEvent(call, finished[call], TRUE)>>
  /\ UNCHANGED <<tasks, phase, args, ni, tgen, stack, finished, outcome,
                 invoked, topLog,
                 entered, runs, regs>>

\* lines 132-133: the called task has a memoized Result
run_cached ==
  /\ phase = "run" /\ call # NoName
  /\ call \in DOMAIN finished
  /\ ret' = Returned(call, finished[call])
  /\ returns' = Append(returns, ReturnOf(call, finished[call], TRUE))
  /\ call' = NoName
  /\ UNCHANGED <<tasks, phase, args, ni, tgen, stack, finished, outcome,
                 events, invoked, topLog,
                 entered, runs, regs>>

\* lines 134-135: a new activation of _run(task)
run_enter ==
  /\ phase = "run" /\ call # NoName
  /\ call \notin DOMAIN finished
  /\ Len(stack) < MaxDepth
  /\ stack' = Append(stack, Frame(call))
  /\ entered' = [entered EXCEPT ![call] = @ + 1]
  /\ call' = NoName
  /\ UNCHANGED <<tasks, phase, args, ni, tgen, ret, finished, outcome,
                 events, invoked, topLog, returns, runs, regs>>

\* a cyclic registry nests _run without end (line 132 only sees finished
\* tasks): the engine's limit ends the nesting with a RangeError instead of
\* a new activation
run_overflow ==
  /\ phase = "run" /\ call # NoName
  /\ call \notin DOMAIN finished
  /\ Len(stack) >= MaxDepth
  /\ ret' = Rejected(call, EngineError("RangeError", call))
  /\ call' = NoName
  /\ UNCHANGED <<tasks, phase, args, ni, tgen, stack, finished, outcome,
                 events, invoked, topLog, returns,
                 entered, runs, regs>>

\* lines 137-138: the scan takes the next dependency name and resolves it
dep_resolve ==
  /\ InFrame /\ Top.pc = "deps" /\ Top.gen = <<>>
  /\ LET t == get(tasks, Top.task)
     IN /\ Top.di <= Len(t.deps)
        /\ LET r == resolve_task(tasks, DepAt(t, Top.di), t.name)
           IN /\ r.kind = "yield"
              /\ stack' = SetTop([Top EXCEPT !.gen = r.tasks, !.di = @ + 1])
  /\ UNCHANGED <<tasks, phase, args, ni, tgen, call, ret, finished, outcome,
                 events, invoked, topLog, returns,
                 entered, runs, regs>>

\* lines 138, 99-102: the dependency name is unknown, the BuildError leaves
\* this activation of _run
dep_unknown ==
  /\ InFrame /\ Top.pc = "deps" /\ Top.gen = <<>>
  /\ LET t == get(tasks, Top.task)
     IN /\ Top.di <= Len(t.deps)
        /\ LET r == resolve_task(tasks, DepAt(t, Top.di), t.name)
           IN /\ r.kind = "throw"
              /\ ret' = Rejected(t.name, r.error)
              /\ stack' = Pop
  /\ UNCHANGED <<tasks, phase, args, ni, tgen, call, finished, outcome,
                 events, invoked, topLog, returns,
                 entered, runs, regs>>

\* line 139: _run(dep) on the next task the generator yields
dep_call ==
  /\ InFrame /\ Top.pc = "deps" /\ Top.gen # <<>>
  /\ call' = Head(Top.gen)
  /\ stack' = SetTop([Top EXCEPT !.gen = Tail(@)])
  /\ UNCHANGED <<tasks, phase, args, ni, tgen, ret, finished, outcome,
                 events, invoked, topLog, returns,
                 entered, runs, regs>>

\* mutant of AfterDep: the scan breaks at the first failed dependency
AfterDepBreak(f, r) ==
  IF is_Failure(r)
  THEN [f EXCEPT !.failed = TRUE, !.gen = <<>>,
                 !.di = Len(get(tasks, f.task).deps) + 1]
  ELSE f

\* the frame the result of a dependency leaves behind, lines 139-142
AfterDep(f, r) == [f EXCEPT !.failed = FailedAfter(@, r)]

dep_result ==
  /\ phase = "run" /\ stack # <<>> /\ call = NoName /\ ret.kind = "return"
  /\ stack' = SetTop(AfterDep(Top, ret.result))
  /\ ret' = NoRet
  /\ UNCHANGED <<tasks, phase, args, ni, tgen, call, finished, outcome,
                 events, invoked, topLog, returns,
                 entered, runs, regs>>

\* line 139: `await _run(dep)` throws, nothing catches it in _run
dep_reject ==
  /\ phase = "run" /\ stack # <<>> /\ call = NoName /\ ret.kind = "throw"
  /\ ret' = Rejected(Top.task, ret.error)
  /\ stack' = Pop
  /\ UNCHANGED <<tasks, phase, args, ni, tgen, call, finished, outcome,
                 events, invoked, topLog, returns,
                 entered, runs, regs>>

\* lines 151-157: memoize, report a Failure, return to the caller
Complete(name, r, log) ==
  /\ finished' = Memoize(finished, name, r)
  /\ events' = show_failure(log, name, r)
  /\ ret' = Returned(name, r)
  /\ returns' = Append(returns, ReturnOf(name, r, FALSE))
  /\ stack' = Pop

\* mutant of exec_nofn: the missing action is logged as started and counted
exec_nofn_started ==
  /\ InFrame /\ Top.pc = "deps" /\ ScanDone(Top) /\ ~Top.failed
  /\ get(tasks, Top.task).fn = "none"
  /\ invoked' = [invoked EXCEPT ![Top.task] = @ + 1]
  /\ LET r == success(<<>>)
     IN Complete(Top.task, r,
                 events \o <<StartEvent(Top.task), FinishEvent(Top.task, r, TRUE)>>)
  /\ UNCHANGED <<tasks, phase, args, ni, tgen, call, outcome, topLog,
                 entered, runs, regs>>

\* lines 146-147 and 107-109: a task without action
exec_nofn ==
  /\ InFrame /\ Top.pc = "deps" /\ ScanDone(Top) /\ ~Top.failed
  /\ get(tasks, Top.task).fn = "none"
  /\ LET r == success(<<>>)
     IN Complete(Top.task, r, Append(events, FinishEvent(Top.task, r, FALSE)))
  /\ UNCHANGED <<tasks, phase, args, ni, tgen, call, outcome, invoked, topLog,
                 entered, runs, regs>>

\* lines 146-147 and 111-115: the action is started
exec_start ==
  /\ InFrame /\ Top.pc = "deps" /\ ScanDone(Top) /\ ~Top.failed
  /\ get(tasks, Top.task).fn # "none"
  /\ events' = Append(events, StartEvent(Top.task))
  /\ invoked' = [invoked EXCEPT ![Top.task] = @ + 1]
  /\ stack' = SetTop([Top EXCEPT !.pc = "fn"])
  /\ UNCHANGED <<tasks, phase, args, ni, tgen, call, ret, finished, outcome,
                 topLog, returns,
                 entered, runs, regs>>

\* lines 115-124 and 151-157: the action settles
exec_finish ==
  /\ InFrame /\ Top.pc = "fn"
  /\ LET r == exec_result(ActionOutcome(get(tasks, Top.task)))
     IN /\ HasTag(r)
        /\ Complete(Top.task, r, Append(events, FinishEvent(Top.task, r, TRUE)))
  /\ UNCHANGED <<tasks, phase, args, ni, tgen, call, outcome, invoked, topLog,
                 entered, runs, regs>>

\* lines 148-157: a dependency failed, the action is skipped
dep_failed ==
  /\ InFrame /\ Top.pc = "deps" /\ ScanDone(Top) /\ Top.failed
  /\ Complete(Top.task, DependencyFailed(Top.task), events)
  /\ UNCHANGED <<tasks, phase, args, ni, tgen, call, outcome, invoked, topLog,
                 entered, runs, regs>>

Next ==
  \/ Register
  \/ RunStart
  \/ run_resolve
  \/ run_unknown
  \/ run_success
  \/ run_call
  \/ run_result
  \/ run_reject
  \/ run_cached
  \/ run_enter
  \/ run_overflow
  \/ dep_resolve
  \/ dep_unknown
  \/ dep_call
  \/ dep_result
  \/ dep_reject
  \/ exec_nofn
  \/ exec_start
  \/ exec_finish
  \/ dep_failed

Spec == Init /\ [][Next]_vars

-----------------------------------------------------------------------------
(* Actions that break the declared type Fn<T>: the action resolves to a
   value that is neither undefined nor a Result *)

RegisterUntyped == task(C, Fn("bare"), "none") /\ UNCHANGED regs

\* lines 116 and 123: the value is taken for the Result as it is, and
\* result.is_Success() of the finish log line throws a TypeError
exec_untyped ==
  /\ InFrame /\ Top.pc = "fn"
  /\ ~HasTag(exec_result(ActionOutcome(get(tasks, Top.task))))
  /\ ret' = Rejected(Top.task, EngineError("TypeError", Top.task))
  /\ stack' = Pop
  /\ UNCHANGED <<tasks, phase, args, ni, tgen, call, finished, outcome,
                 events, invoked, topLog, returns,
                 entered, runs, regs>>

NextUntyped ==
  \/ Next
  \/ RegisterUntyped
  \/ exec_untyped

SpecUntyped == Init /\ [][NextUntyped]_vars

-----------------------------------------------------------------------------
(* A build script that calls run(...) again after a run has settled *)

\* how many times the script calls run
MaxRuns == 2

\* the registrations of b:j and c:j alone
RegisterLeaves ==
  \E c \in CallsB \cup CallsC : task(c.name, c.a2, c.a3) /\ UNCHANGED regs

\* the same names are requested once more
RunAgain == phase = "done" /\ runs < MaxRuns /\ run(args)

NextRerun ==
  \/ RegisterLeaves
  \/ RunStart
  \/ RunAgain
  \/ run_resolve
  \/ run_unknown
  \/ run_success
  \/ run_call
  \/ run_result
  \/ run_reject
  \/ run_cached
  \/ run_enter
  \/ run_overflow
  \/ dep_resolve
  \/ dep_unknown
  \/ dep_call
  \/ dep_result
  \/ dep_reject
  \/ exec_nofn
  \/ exec_start
  \/ exec_finish
  \/ dep_failed

SpecRerun == Init /\ [][NextRerun]_vars

-----------------------------------------------------------------------------
(* The registry alone, with the task(...) calls recorded *)

\* how many task(...) calls a recorded behaviour makes
MaxRegs == 3

RegisterLogged ==
  \E c \in TaskCalls :
    /\ Len(regs) < MaxRegs
    /\ task(c.name, c.a2, c.a3)
    /\ regs' = Append(regs, c)

SpecRegistry == Init /\ [][RegisterLogged]_vars

-----------------------------------------------------------------------------
(* Names and patterns with more than one ':' *)

\* x:a:b, y:a, z:b are leaves whose action returns nothing; a depends on
\* whatever ends with :b
NameCalls ==
  {Call(n, Fn("void"), "none") : n \in {XAB, YA, ZB}}
    \cup {Call(A, Deps(<<WB>>), "ok")}

RegisterNames ==
  \E c \in NameCalls : task(c.name, c.a2, c.a3) /\ UNCHANGED regs

Patterns == {WAB, WA, WB}

NameArgs == UNION {[1..k -> Patterns \cup {A}] : k \in 1..MaxArgs}

RunNames == phase = "load" /\ \E names \in NameArgs : run(names)

NextNames ==
  \/ RegisterNames
  \/ RunNames
  \/ run_resolve
  \/ run_unknown
  \/ run_success
  \/ run_call
  \/ run_result
  \/ run_cached
  \/ run_enter
  \/ dep_resolve
  \/ dep_call
  \/ dep_result
  \/ exec_start
  \/ exec_finish

SpecNames == Init /\ [][NextNames]_vars

-----------------------------------------------------------------------------
(* Vocabulary of the properties *)

Registered == {tasks[i].name : i \in 1..Len(tasks)}

Done(n) == n \in DOMAIN finished

Failed(n) == Done(n) /\ is_Failure(finished[n])

Succeeded(n) == Done(n) /\ is_Success(finished[n])

HasAction(n) == has(tasks, n) /\ get(tasks, n).fn # "none"

\* the action of n is between its start and its finish
InProgress(n) == \E k \in 1..Len(stack) : stack[k].task = n /\ stack[k].pc = "fn"

\* a name resolve_task can only throw on
UnknownName(name) == Pieces(name)[1] # <<"*">> /\ name \notin Registered

\* the tasks the dependency patterns of n resolve to
ResolvedDeps(n) ==
  LET d == get(tasks, n).deps
      hits(p) == LET q == Pieces(p)
                 IN IF q[1] = <<"*">>
                    THEN {m \in Registered : endsWith(m, <<":">> \o q[2])}
                    ELSE {p} \cap Registered
  IN UNION {hits(d[i]) : i \in 1..Len(d)}

CachedReturns(n) == {i \in 1..Len(returns) : returns[i].task = n /\ returns[i].cached}

EventsOf(n, type) == {i \in 1..Len(events) : events[i].name = n /\ events[i].type = type}

-----------------------------------------------------------------------------
(* C1 *)

\* C1: within one run each task's action is invoked at most once, however
\* many tasks, repeated names or patterns lead to it, and every _run call on
\* a task returns the same Result, the memoized one.
C1_AtMostOnce ==
  /\ \A n \in Pool : invoked[n] <= 1
  /\ \A i \in 1..Len(returns) :
       /\ Done(returns[i].task)
       /\ returns[i].result = finished[returns[i].task]

\* c:j is reached from a (exact name, then again through *:j) and from b:j
C1_Witness ==
  /\ phase = "done"
  /\ has(tasks, A) /\ get(tasks, A).deps = <<C, WJ>>
  /\ has(tasks, B) /\ get(tasks, B).deps = <<C>>
  /\ invoked[C] = 1
  /\ Cardinality(CachedReturns(C)) = 2
  /\ Succeeded(A)

-----------------------------------------------------------------------------
(* C2 *)

\* C2: an action is invoked only once every dependency pattern of its task
\* has been processed and every task they resolved to has a Success; a task
\* whose scan ended with a failed dependency gets a Failure carrying a
\* BuildError whose component is the task's own name, and its action is not
\* invoked in the run.
C2_ActionOnlyAfterDeps ==
  /\ \A k \in 1..Len(stack) :
       stack[k].pc = "fn" => ScanDone(stack[k]) /\ ~stack[k].failed
  /\ \A n \in Registered :
       /\ invoked[n] > 0 =>
            /\ \A i \in 1..Len(get(tasks, n).deps) : ~UnknownName(get(tasks, n).deps[i])
            /\ \A m \in ResolvedDeps(n) : Succeeded(m)
       /\ (\E m \in ResolvedDeps(n) : Failed(m)) =>
            /\ invoked[n] = 0
            /\ Done(n) =>
                 /\ is_Failure(finished[n])
                 /\ finished[n].error.kind = "BuildError"
                 /\ finished[n].error.component = n
                 /\ finished[n].error.name = n

\* a's first dependency failed, its second one succeeded, a is dependency-failed
C2_Witness ==
  /\ has(tasks, A) /\ get(tasks, A).deps = <<B, C>> /\ HasAction(A)
  /\ Failed(B) /\ Succeeded(C) /\ Failed(A)
  /\ finished[A].error.component = A
  /\ invoked[A] = 0

-----------------------------------------------------------------------------
(* C3 *)

\* C3: for a task P with dependencies <<X, Y>> whose X failed in its own
\* action: P gets its Result only after Y was executed too (Y's action ran
\* when Y succeeded), P's action is not invoked and P's Result is the
\* dependency-failed Failure naming P.
C3_SiblingCompleteness ==
  \A p \in Registered : \A x, y \in Registered :
    ( /\ get(tasks, p).deps = <<x, y>>
      /\ x # y
      /\ Done(p)
      /\ Failed(x) /\ finished[x].error = ActionError(x) )
    => /\ Done(y)
       /\ Succeeded(y) /\ HasAction(y) => invoked[y] = 1
       /\ invoked[p] = 0
       /\ finished[p] = failure(BuildError(p, "task failed", p, <<>>))

\* b:j threw, c:j ran all the same, a did not
C3_Witness ==
  /\ has(tasks, A) /\ get(tasks, A).deps = <<B, C>> /\ HasAction(A)
  /\ Failed(B) /\ finished[B].error = ActionError(B)
  /\ Succeeded(C) /\ invoked[C] = 1
  /\ Len(returns) = 3 /\ returns[2].task = C /\ ~returns[2].cached
  /\ Failed(A) /\ invoked[A] = 0

-----------------------------------------------------------------------------
(* C4 *)

RECURSIVE Expand(_)
\* the tasks the requested names resolve to, in order, up to an unknown name
Expand(names) ==
  IF names = <<>>
  THEN <<>>
  ELSE LET r == resolve_task(tasks, Head(names), NoName)
       IN IF r.kind = "throw" THEN <<>> ELSE r.tasks \o Expand(Tail(names))

IsPrefix(s, t) == Len(s) <= Len(t) /\ SubSeq(t, 1, Len(s)) = s

AllResolve == \A i \in 1..Len(args) : ~UnknownName(args[i])

ReturnedFailure == phase = "done" /\ outcome.kind = "return" /\ is_Failure(outcome.result)

ReturnedSuccess == phase = "done" /\ outcome.kind = "return" /\ is_Success(outcome.result)

\* C4: run takes the requested names, and the matches of each, in order;
\* every top-level task before the last attempted one succeeded; a returned
\* Failure is the Result of the last attempted task and nothing after it was
\* resolved or attempted; when all names resolve and all top-level tasks
\* succeed, and only then, run returns Success(undefined).
C4_TopLevelShortCircuit ==
  /\ IsPrefix(topLog, Expand(args))
  /\ \A i \in 1..(Len(topLog) - 1) : Succeeded(topLog[i])
  /\ ReturnedFailure =>
       /\ topLog # <<>>
       /\ Failed(topLog[Len(topLog)])
       /\ outcome.result = finished[topLog[Len(topLog)]]
       /\ topLog \o tgen = Expand(SubSeq(args, 1, ni - 1))
  /\ ReturnedSuccess =>
       /\ outcome.result = success(<<>>)
       /\ AllResolve /\ topLog = Expand(args)
       /\ \A i \in 1..Len(topLog) : Succeeded(topLog[i])
  /\ ( /\ phase = "done" /\ AllResolve /\ topLog = Expand(args)
       /\ \A i \in 1..Len(topLog) : Succeeded(topLog[i]) )
     => ReturnedSuccess

\* run("*:j", "a"): b:j succeeded, c:j failed, a was never resolved
C4_Witness ==
  /\ ReturnedFailure
  /\ args = <<WJ, A>> /\ has(tasks, A)
  /\ topLog = <<B, C>> /\ Succeeded(B) /\ Failed(C)
  /\ outcome.result = finished[C]
  /\ ni = 2 /\ ~Done(A)

-----------------------------------------------------------------------------
(* C5 *)

\* C5 as stated: for a task with dependencies <<X, Y>>, both with actions,
\* in a run that executed the task and both actions, X's finish event comes
\* before Y's start event.
C5_Original ==
  \A t \in Registered : \A x, y \in Registered :
    ( /\ get(tasks, t).deps = <<x, y>> /\ x # y
      /\ Done(t) /\ invoked[x] = 1 /\ invoked[y] = 1 )
    => \E i \in EventsOf(x, "finish") : \E j \in EventsOf(y, "start") : i < j

\* C5, amended: when Y's action begins inside the scan of a task with
\* dependencies <<X, Y>> (Y was not executed earlier in the run), X has its
\* Result and X's action, if it ran, finished before Y's action started.
C5_OrderedInScan ==
  \A k \in 1..(Len(stack) - 1) :
    LET d == get(tasks, stack[k].task).deps
        y == stack[k + 1].task
    IN ( /\ Len(d) = 2 /\ d[2] = y /\ d[1] # y
         /\ HasAction(d[1])
         /\ stack[k + 1].pc = "fn" )
       => /\ Done(d[1])
          /\ ~InProgress(d[1])
          /\ invoked[d[1]] = 1 =>
               \E i \in EventsOf(d[1], "finish") : \E j \in EventsOf(y, "start") : i < j

\* c:j's action is running under a, after b:j's action finished
C5_Witness ==
  /\ Len(stack) = 2
  /\ stack[1].task = A /\ get(tasks, A).deps = <<B, C>>
  /\ stack[2].task = C /\ stack[2].pc = "fn"
  /\ invoked[B] = 1 /\ Done(B)
  /\ EventsOf(B, "finish") # {}

-----------------------------------------------------------------------------
(* C6 *)

DepsOf(n) == get(tasks, n).deps

\* the scan of the innermost activation is about to resolve an unknown name
AtUnknownDep ==
  /\ InFrame /\ Top.pc = "deps" /\ Top.gen = <<>>
  /\ Top.di <= Len(DepsOf(Top.task))
  /\ UnknownName(DepsOf(Top.task)[Top.di])

C6_Step ==
  AtUnknownDep =>
    /\ ret'.kind = "throw"
    /\ ret'.task = Top.task
    /\ ret'.error.kind = "BuildError"
    /\ ret'.error.text = "unknown task"
    /\ ret'.error.name = DepsOf(Top.task)[Top.di]
    /\ ret'.error.ref = <<Top.task>>
    /\ stack' = Pop
    /\ call' = NoName
    /\ invoked' = invoked

C6_Scan ==
  /\ \A k \in 1..Len(stack) : \A i \in 1..(stack[k].di - 1) :
       ~UnknownName(DepsOf(stack[k].task)[i])
  /\ \A n \in Registered :
       (\E i \in 1..Len(DepsOf(n)) : UnknownName(DepsOf(n)[i])) => invoked[n] = 0

-----------------------------------------------------------------------------
(* C7 *)

\* run ended at a top-level name that is unknown: every task attempted
\* before it succeeded and the name was the next one to resolve
StoppedAtUnknownTop ==
  /\ phase = "done"
  /\ tgen = <<>> /\ ni <= Len(args)
  /\ UnknownName(args[ni])
  /\ \A i \in 1..Len(topLog) : Succeeded(topLog[i])

\* C7: run on an unknown top-level name returns a Failure whose error names
\* it without a referrer.
C7_Claim ==
  StoppedAtUnknownTop =>
    outcome = Returned(NoName, failure(UnknownTask(args[ni], NoName)))

\* what the code does instead: the same BuildError leaves run as a rejection
C7_Rejects ==
  StoppedAtUnknownTop => outcome = Rejected(NoName, UnknownTask(args[ni], NoName))

-----------------------------------------------------------------------------
(* C8 *)

\* every memoized Failure was reported once, when it was computed
C8_Reported ==
  \A n \in Pool :
    /\ Cardinality(EventsOf(n, "failure")) <= 1
    /\ Failed(n) <=> EventsOf(n, "failure") # {}
    /\ \A i \in EventsOf(n, "failure") : events[i].error = finished[n].error

\* the activation of a task has just ended on an unknown dependency name
EndedOnUnknownDep ==
  /\ ret.kind = "throw"
  /\ ret.error.text = "unknown task"
  /\ ret.error.ref = <<ret.task>>

\* C8: every Failure of a task, from its action, from a failed dependency or
\* from an unknown dependency name, is reported once when computed and is
\* stored in the memo.
C8_Claim ==
  /\ C8_Reported
  /\ EndedOnUnknownDep =>
       /\ Failed(ret.task)
       /\ finished[ret.task].error = ret.error
       /\ Cardinality(EventsOf(ret.task, "failure")) = 1

-----------------------------------------------------------------------------
(* C9 *)

\* the action of n was invoked and has settled
Settled(n) == invoked[n] = 1 /\ ~InProgress(n)

FnOf(n) == get(tasks, n).fn

\* no error created by an action travels as an exception
NoActionErrorEscapes == ret.error.kind # "Error" /\ outcome.error.kind # "Error"

-----------------------------------------------------------------------------
(* C10 *)

TimedFinishes(n) == {i \in EventsOf(n, "finish") : events[i].timed}

\* C10: the start events of a task are as many as the invocations of its
\* action, each followed by one finish event that carries the tag of the
\* task's Result; a memoized hit adds none.
C10_StartFinish ==
  \A n \in Pool :
    /\ Cardinality(EventsOf(n, "start")) = invoked[n]
    /\ Cardinality(TimedFinishes(n)) = (IF InProgress(n) THEN invoked[n] - 1 ELSE invoked[n])
    /\ HasAction(n) => TimedFinishes(n) = EventsOf(n, "finish")
    /\ \A j \in TimedFinishes(n) :
         /\ \E i \in EventsOf(n, "start") : i < j
         /\ Done(n) /\ events[j].tag = finished[n].tag

\* c:j's action failed once and c:j was hit again in the memo
C10_Witness ==
  /\ invoked[C] = 1 /\ Failed(C)
  /\ CachedReturns(C) # {}
  /\ Cardinality(EventsOf(C, "start")) = 1
  /\ \E j \in TimedFinishes(C) : events[j].tag = "Failure"

-----------------------------------------------------------------------------
(* C11 *)

\* the text of a pattern behind its leading "*:"
AfterStar(p) == SubSeq(p, 3, Len(p))

ColonFree(s) == \A i \in 1..Len(s) : s[i] # ":"

\* the patterns `*:suffix` whose suffix holds no further ':'
PlainPatterns == {p \in Patterns \cup {WJ} : ColonFree(AfterStar(p))}

IndexOf(n) == CHOOSE i \in 1..Len(tasks) : tasks[i].name = n

EndingWith(suffix) == {n \in Registered : endsWith(n, <<":">> \o suffix)}

C11_OrderedMatch ==
  /\ phase = "done" /\ args = <<WB, A>>
  /\ task_names = <<YA, ZB, A, XAB>>
  /\ topLog = <<ZB, XAB, A>>
  /\ CachedReturns(ZB) # {} /\ CachedReturns(XAB) # {}

-----------------------------------------------------------------------------
(* C12 *)

\* C12: the memo belongs to one run(...) call: a memoized hit is always on a
\* Result this run stored itself, the memo holds only tasks this run
\* entered, and when run is called again with the same names each call
\* invokes the action of a task it reaches once.
C12_MemoPerRun ==
  /\ \A i \in 1..Len(returns) :
       returns[i].cached =>
         \E j \in 1..(i - 1) :
           /\ returns[j].task = returns[i].task /\ ~returns[j].cached
           /\ returns[j].result = returns[i].result
  /\ \A n \in Pool :
       /\ Done(n) => entered[n] = 1
       /\ invoked[n] <= 1
       /\ phase = "done" => Cardinality(EventsOf(n, "start")) = runs * invoked[n]

\* run("b:j", "*:j") called twice, b:j depending on c:j: in the second run
\* c:j's action ran once more and c:j was then hit in the second run's memo
C12_Witness ==
  /\ runs = 2 /\ phase = "done"
  /\ args = <<B, WJ>>
  /\ task_names = <<C, B>>
  /\ get(tasks, B).deps = <<C>>
  /\ invoked[C] = 1 /\ invoked[B] = 1
  /\ Cardinality(EventsOf(C, "start")) = 2
  /\ Cardinality(EventsOf(B, "start")) = 2
  /\ CachedReturns(C) # {} /\ CachedReturns(B) # {}

-----------------------------------------------------------------------------
(* C13 *)

CalledWith(n) == {i \in 1..Len(regs) : regs[i].name = n}

FirstCall(n) == CHOOSE i \in CalledWith(n) : \A j \in CalledWith(n) : i <= j

LastCall(n) == CHOOSE i \in CalledWith(n) : \A j \in CalledWith(n) : j <= i

\* C13: after any sequence of task(...) calls the registry holds, for each
\* name called, the definition of the latest call with that name (no
\* dependencies when they were left out), and task_names() lists every such
\* name once, in the order of the first call with each name.
C13_Registry ==
  /\ \A n \in Pool : has(tasks, n) <=> CalledWith(n) # {}
  /\ \A i \in 1..Len(task_names) : task_names[i] \in Pool
  /\ \A i, j \in 1..Len(task_names) :
       i < j => /\ task_names[i] # task_names[j]
                /\ FirstCall(task_names[i]) < FirstCall(task_names[j])
  /\ \A n \in Registered :
       LET c == regs[LastCall(n)]
       IN get(tasks, n) =
            [name |-> n,
             deps |-> IF c.a2.isArray THEN c.a2.deps ELSE <<>>,
             fn   |-> IF c.a2.isArray THEN c.a3 ELSE c.a2.fn]

\* task("a", [...], fn), task("b:j", ...), then task("a", fn) again
C13_Witness ==
  /\ Len(regs) = 3
  /\ regs[1].name = A /\ regs[2].name = B /\ regs[3].name = A
  /\ regs[1].a2.isArray /\ regs[1].a2.deps # <<>>
  /\ ~regs[3].a2.isArray
  /\ task_names = <<A, B>>
  /\ get(tasks, A) = Task(A, <<>>, regs[3].a2.fn)

-----------------------------------------------------------------------------
(* C14 *)

\* C14: a task without action that got a Result has Success with no value
\* when all its resolved dependencies succeeded (always so when it has no
\* dependencies) and the dependency-failed Failure otherwise; it never has
\* an invocation or a start event, and its only log line is an untimed
\* "Finished".
C14_NoAction ==
  \A n \in Registered :
    get(tasks, n).fn = "none" =>
      /\ invoked[n] = 0
      /\ EventsOf(n, "start") = {}
      /\ ~InProgress(n)
      /\ Done(n) =>
           /\ (\A d \in ResolvedDeps(n) : Succeeded(d)) => finished[n] = success(<<>>)
           /\ get(tasks, n).deps = <<>> => finished[n] = success(<<>>)
           /\ finished[n] \in {success(<<>>), DependencyFailed(n)}
           /\ is_Success(finished[n]) =>
                \E i \in EventsOf(n, "finish") :
                  /\ events[i] = FinishEvent(n, success(<<>>), FALSE)
                  /\ EventsOf(n, "finish") = {i}

\* run("a"): a has dependencies b:j and c:j and no action, c:j has neither
\* dependencies nor action, b:j succeeded
C14_Witness ==
  /\ has(tasks, A) /\ has(tasks, C)
  /\ get(tasks, A) = Task(A, <<B, C>>, "none")
  /\ get(tasks, C) = Task(C, <<>>, "none")
  /\ Succeeded(B) /\ invoked[B] = 1
  /\ Done(C) /\ finished[C] = success(<<>>)
  /\ Done(A) /\ finished[A] = success(<<>>)
  /\ EventsOf(A, "start") = {} /\ EventsOf(C, "start") = {}

-----------------------------------------------------------------------------
(* C15 *)

\* run entered p, whose dependencies are x then y, and x's first dependency
\* is a name that is not registered
SiblingOfUnknown(p, x, y) ==
  /\ phase = "done" /\ entered[p] > 0
  /\ p # x /\ p # y /\ x # y
  /\ get(tasks, p).deps = <<x, y>>
  /\ get(tasks, x).deps # <<>>
  /\ UnknownName(get(tasks, x).deps[1])

\* C15: when p has dependencies [x, y] and x fails because it declares an
\* unregistered dependency, p records x's Failure, y is still executed, and
\* p ends with the dependency-failed Failure naming p.
C15_Claim ==
  \A p, x, y \in Registered :
    SiblingOfUnknown(p, x, y) =>
      /\ Failed(x)
      /\ Done(y) /\ entered[y] = 1
      /\ Done(p) /\ finished[p] = DependencyFailed(p)

\* what the code does: the BuildError of x's dependency leaves x, p and run
\* as an exception; neither x nor p gets a Result and the scan of p ends at x
C15_Unwinds ==
  \A p, x, y \in Registered :
    SiblingOfUnknown(p, x, y) =>
      /\ ~Done(x) /\ ~Done(p)
      /\ outcome = Rejected(NoName, UnknownTask(get(tasks, x).deps[1], x))
      /\ topLog = <<p>> => entered[y] = 0

-----------------------------------------------------------------------------
(* C16 *)

RECURSIVE Reach(_, _)
\* the tasks reached from the set S along at most k more dependency edges
Reach(S, k) ==
  LET T == S \cup UNION {ResolvedDeps(m) : m \in S}
  IN IF k = 0 \/ T = S THEN S ELSE Reach(T, k - 1)

DependsOn(n) == Reach(ResolvedDeps(n), Cardinality(Registered))

\* no task depends on itself, directly, through others or through a pattern
Acyclic == \A n \in Registered : n \notin DependsOn(n)

\* the activations of _run(n) that have not returned
Activations(n) == {k \in 1..Len(stack) : stack[k].task = n}

C16_States ==
  /\ \A k \in 1..Len(stack) : entered[stack[k].task] > 0 /\ ~Done(stack[k].task)
  /\ \A n \in DOMAIN finished : entered[n] = 1

\* some task was entered again, or has two activations at once
C16_Twice ==
  \/ \E n \in Pool : entered[n] > 1
  \/ \E k, m \in 1..Len(stack) : k < m /\ stack[k].task = stack[m].task

\* the steps of the per-task machine
C16_Steps ==
  /\ \A n \in DOMAIN finished :
       Done(n)' /\ finished'[n] = finished[n] /\ entered'[n] = entered[n]
  /\ finished' # finished =>
       \A n \in DOMAIN finished' \ DOMAIN finished :
         Activations(n) # {} /\ HasTag(finished'[n])
  /\ entered' # entered =>
       \A n \in Pool :
         entered'[n] # entered[n] =>
           /\ entered'[n] = entered[n] + 1 /\ ~Done(n)
           /\ Activations(n)' # {}
           /\ entered[n] # 0 => ~Acyclic

-----------------------------------------------------------------------------
(* C17 *)

\* the continuation of a settled promise is always run in the end, and
\* every action settles
SpecFair == Spec /\ WF_vars(Next)

\* every dependency name of every registered task resolves
DepsResolve ==
  \A n \in Registered :
    \A i \in 1..Len(get(tasks, n).deps) : ~UnknownName(get(tasks, n).deps[i])

\* C17: in an acyclic registry whose actions all complete, when run(...)
\* has completed every task that was entered has a memoized Result.
C17_Claim ==
  (phase = "done" /\ Acyclic) => \A n \in Pool : entered[n] > 0 => Done(n)

\* the same where no task declares a dependency that is not registered
C17_AllMemoized ==
  (phase = "done" /\ DepsResolve /\ Acyclic) =>
     \A n \in Pool : entered[n] > 0 => Done(n) /\ HasTag(finished[n])

\* run("*:j") where c:j declares the unregistered dependency g
C17_Unmemoized ==
  /\ phase = "done" /\ task_names = <<C>> /\ args = <<WJ>>
  /\ entered[C] = 1 /\ ~Done(C) /\ outcome.kind = "throw"

\* every call of run completes
C17_Completes == (phase = "run") ~> (phase = "done")

-----------------------------------------------------------------------------
(* C18 *)

\* the tasks the scan of frame f has taken from the pattern it is at
Taken(f) ==
  LET t == get(tasks, f.task)
      m == resolve_task(tasks, t.deps[f.di - 1], t.name).tasks
  IN SubSeq(m, 1, Len(m) - Len(f.gen))

\* the task whose _run call the frame at position k is waiting for
Awaited(k) ==
  IF k < Len(stack) THEN stack[k + 1].task
  ELSE IF call # NoName THEN call ELSE ret.task

\* C18: at most one action is between its start and its finish, and nothing
\* else of the run goes on meanwhile; a started action has all its resolved
\* dependencies returned; and every activation has taken its dependencies
\* in declaration order one at a time: all it took have returned, except
\* the last one while that one's _run call is still going on.
C18_Sequential ==
  /\ Cardinality({k \in 1..Len(stack) : stack[k].pc = "fn"}) <= 1
  /\ \A k \in 1..Len(stack) :
       stack[k].pc = "fn" => k = Len(stack) /\ call = NoName /\ ret = NoRet
  /\ call # NoName => ret = NoRet
  /\ \A i \in 1..Len(events) :
       events[i].type = "start" =>
         \/ i = Len(events) /\ InProgress(events[i].name)
         \/ /\ i < Len(events)
            /\ events[i + 1].type = "finish" /\ events[i + 1].name = events[i].name
  /\ \A n \in Registered :
       invoked[n] > 0 => \A d \in ResolvedDeps(n) : Done(d)
  /\ \A k \in 1..Len(stack) :
       LET f == stack[k]
           d == get(tasks, f.task).deps
       IN /\ \A i \in 1..(f.di - 2) :
               \A m \in Registered :
                 (\E j \in 1..Len(resolve_task(tasks, d[i], f.task).tasks) :
                    resolve_task(tasks, d[i], f.task).tasks[j] = m) => Done(m)
          /\ f.di > 1 =>
               \A j \in 1..Len(Taken(f)) :
                 \/ Done(Taken(f)[j])
                 \/ j = Len(Taken(f)) /\ Awaited(k) = Taken(f)[j]

\* run("a") with a = [b:j, c:j]: b:j has returned, c:j's action is running,
\* a's activation waits for it and a's action has not started
C18_Witness ==
  /\ Len(stack) = 2
  /\ stack[1].task = A /\ stack[1].pc = "deps" /\ stack[1].di = 3
  /\ stack[2].task = C /\ stack[2].pc = "fn"
  /\ get(tasks, A).deps = <<B, C>> /\ get(tasks, A).fn # "none"
  /\ Done(B) /\ invoked[B] = 1 /\ invoked[C] = 1 /\ invoked[A] = 0
  /\ events[Len(events)] = StartEvent(C)

-----------------------------------------------------------------------------
(* C19 *)

Yielded(p) ==
  LET r == resolve_task(tasks, p, NoName)
  IN {r.tasks[i] : i \in 1..Len(r.tasks)}

\* the text of s before its first ':', all of s when it has none
UpToColon(s) ==
  IF ColonFree(s) THEN s
  ELSE SubSeq(s, 1, (CHOOSE k \in 1..Len(s) :
                       s[k] = ":" /\ \A m \in 1..(k - 1) : s[m] # ":") - 1)

\* C19: the suffix of a requested name is everything behind its first ':',
\* so a pattern `*:a:b` resolves to exactly the registered tasks whose name
\* ends with `:a:b`; a name without ':' is its own prefix and has no suffix.
C19_Claim ==
  /\ \A p \in Patterns :
       /\ resolve_task(tasks, p, NoName).kind = "yield"
       /\ Yielded(p) = EndingWith(AfterStar(p))
  /\ \A n \in {A, G} : split(n, 2) = <<n>>

\* what the code does: split(":", 2) drops what is behind a second ':', the
\* suffix is the text between the first ':' and the second
C19_SecondPiece ==
  /\ \A p \in Patterns :
       /\ resolve_task(tasks, p, NoName).kind = "yield"
       /\ Yielded(p) = EndingWith(UpToColon(AfterStar(p)))
  /\ \A n \in {A, G} : split(n, 2) = <<n>>

\* run("*:a:b") with x:a:b and y:a registered runs y:a and leaves x:a:b out
C19_RunsOther ==
  /\ phase = "done" /\ args = <<WAB>>
  /\ task_names = <<XAB, YA>>
  /\ topLog = <<YA>>
  /\ invoked[YA] = 1 /\ invoked[XAB] = 0 /\ entered[XAB] = 0
  /\ outcome = Returned(NoName, success(<<>>))

=============================================================================
